---- MODULE Spec2Model ----
(***************************************************************************)
(* Model of the IDF Mobilite stop monitoring retrieval pipeline:           *)
(*   - StopReferentialManager   (town matching, stop selection)            *)
(*   - StopMonitoringDataRetrieverResult (summary record)                  *)
(*   - StopMonitoringDataRetriever.execute_retrieval_workflow              *)
(*     (thread pool, memoized fetch, aggregation loop)                     *)
(* Python strings that the code inspects character by character (town      *)
(* names, formatted counts and rates) are sequences of one-character       *)
(* strings; opaque strings (stop names, status, exception names) are       *)
(* plain strings.                                                          *)
(***************************************************************************)
EXTENDS Integers, Sequences, FiniteSets, TLC

VARIABLES
    selected_towns,    \* sm_config.selected_towns: list of town names
    referential,       \* rows of stop_referential.json
    ref_readable,      \* whether json.load of the referential file succeeds
    max_workers,       \* sm_config.max_workers
    response,          \* stop id -> what the API does for that stop
    pc,                \* position of execute_retrieval_workflow
    pending_stops,     \* rows iter_stops has not yielded yet
    futures,           \* submitted futures, in submission order
    cache,             \* lru_cache of _fetch_stop_point_data (keys, LRU first)
    get_count,         \* stop id -> number of requests.get issued
    total_processed,   \* local counter of the workflow
    total_successful,  \* local counter of the workflow
    sink,              \* stop names whose rows were appended to the csv
    result,            \* the returned StopMonitoringDataRetrieverResult
    error,             \* exception that left execute_retrieval_workflow
    args,              \* arguments of a direct call of a pure function
    ret,               \* value returned by that call
    csv,               \* content of the processed file stop_monitoring.csv
    writers            \* threads that are inside _save_processed_df

vars == <<selected_towns, referential, ref_readable, max_workers, response,
          pc, pending_stops, futures, cache, get_count, total_processed,
          total_successful, sink, result, error, args, ret, csv, writers>>

-----------------------------------------------------------------------------
(* Bounds of the exploration *)

MaxWorkers == 3
MaxTownLen == 2
MaxTowns == 2
MaxCount == 13
MaxInputLen == 3
MaxAppends == 2
MaxEntries == 2
MaxVisits == 1

(* Program constants *)

ScoreCutoff == 70
LruMaxsize == 100

-----------------------------------------------------------------------------
(* Python str(int), int(str) and "{:.2f}%" formatting *)

DigitChars == <<"0", "1", "2", "3", "4", "5", "6", "7", "8", "9">>

RECURSIVE str(_)
str(n) ==
    IF n < 10 THEN <<DigitChars[n + 1]>>
    ELSE str(n \div 10) \o <<DigitChars[(n % 10) + 1]>>

DigitValue(c) == CHOOSE d \in 0..9 : DigitChars[d + 1] = c

RECURSIVE int(_)
int(s) ==
    IF Len(s) = 1 THEN DigitValue(s[1])
    ELSE 10 * int(SubSeq(s, 1, Len(s) - 1)) + DigitValue(s[Len(s)])

\* value / total * 100 rounded to hundredths (round-half-even, as the
\* float formatter does on an exactly representable tie)
RoundedHundredths(value, total) ==
    LET num == value * 10000
        q == num \div total
        r == num % total
    IN  IF 2 * r < total THEN q
        ELSE IF 2 * r > total THEN q + 1
        ELSE IF q % 2 = 0 THEN q ELSE q + 1

\* f"{x:.2f}%" of x = h / 100
FormatPercent(h) ==
    str(h \div 100) \o <<".">>
        \o <<DigitChars[((h % 100) \div 10) + 1], DigitChars[(h % 10) + 1]>>
        \o <<"%">>

-----------------------------------------------------------------------------
(* StopMonitoringDataRetrieverResult *)

ZeroDivisionError == <<"ZeroDivisionError">>

\* self.total_processed is a str: it is truthy when it is non-empty
compute_ratio(value, total_processed_str) ==
    IF Len(total_processed_str) > 0
    THEN IF int(total_processed_str) = 0
         THEN ZeroDivisionError
         ELSE FormatPercent(RoundedHundredths(int(value), int(total_processed_str)))
    ELSE <<"0", ".", "0", "0", "%">>

get_status(success_rate) ==
    IF success_rate = <<"1", "0", "0", "%">> THEN "SUCCESS"
    ELSE IF success_rate # <<"0", ".", "0", "0", "%">> THEN "PARTIAL_SUCCESS"
    ELSE "FAILED"

NoResult ==
    [raised |-> "none", total_processed |-> <<>>, total_successful |-> <<>>,
     total_failed |-> <<>>, success_rate |-> <<>>, failure_rate |-> <<>>,
     status |-> "none"]

\* dataclass construction followed by __post_init__; raised names the
\* exception that leaves the constructor, "none" when it returns
StopMonitoringDataRetrieverResult(tp, ts, tf) ==
    LET sr == compute_ratio(ts, tp)
        fr == compute_ratio(tf, tp)
    IN  IF sr = ZeroDivisionError \/ fr = ZeroDivisionError
        THEN [NoResult EXCEPT !.raised = "ZeroDivisionError"]
        ELSE [raised |-> "none", total_processed |-> tp,
              total_successful |-> ts, total_failed |-> tf,
              success_rate |-> sr, failure_rate |-> fr,
              status |-> get_status(sr)]

\* variant: total_failed is passed the processed count
BuildResult_failed_as_processed(processed, successful) ==
    StopMonitoringDataRetrieverResult(str(processed), str(successful),
                                      str(processed))

\* lines 412-418: the orchestrator passes the counters as strings
BuildResult(processed, successful) ==
    StopMonitoringDataRetrieverResult(str(processed), str(successful),
                                      str(processed - successful))

-----------------------------------------------------------------------------
(* thefuzz: process.extractOne(town, towns, scorer=fuzz.ratio,
   score_cutoff=70), called at lines 46-48 *)

None == <<"None">>

Max(a, b) == IF a >= b THEN a ELSE b

\* default processor of process.extractOne (utils.full_process): lower-case,
\* every non-alphanumeric character becomes a blank, then strip
ProcessChar(c) ==
    CASE c = "A" -> "a"
      [] c = "B" -> "b"
      [] c \in {"a", "b", "c"} -> c
      [] OTHER -> " "

RECURSIVE lstrip(_)
lstrip(s) ==
    IF s # <<>> /\ Head(s) = " " THEN lstrip(Tail(s)) ELSE s

RECURSIVE rstrip(_)
rstrip(s) ==
    IF s # <<>> /\ s[Len(s)] = " " THEN rstrip(SubSeq(s, 1, Len(s) - 1)) ELSE s

full_process(s) == rstrip(lstrip([i \in 1..Len(s) |-> ProcessChar(s[i])]))

\* length of the longest common subsequence (the Indel similarity)
RECURSIVE LCS(_, _)
LCS(s1, s2) ==
    IF s1 = <<>> \/ s2 = <<>> THEN 0
    ELSE IF Head(s1) = Head(s2) THEN 1 + LCS(Tail(s1), Tail(s2))
    ELSE Max(LCS(Tail(s1), s2), LCS(s1, Tail(s2)))

\* fuzz.ratio as the exact fraction num / den of 100
ratio(s1, s2) ==
    IF Len(s1) + Len(s2) = 0 THEN [num |-> 100, den |-> 1]
    ELSE [num |-> 200 * LCS(s1, s2), den |-> Len(s1) + Len(s2)]

ScoreGE(x, y) == x.num * y.den >= y.num * x.den
ScoreGT(x, y) == x.num * y.den > y.num * x.den

\* variant: a later choice of equal score replaces the current result
RECURSIVE extractOneScan_last(_, _, _, _, _)
extractOneScan_last(query, choices, i, best, cutoff) ==
    IF i > Len(choices) THEN best
    ELSE LET score == ratio(query, full_process(choices[i]))
         IN  IF ScoreGE(score, cutoff)
             THEN extractOneScan_last(query, choices, i + 1, i, score)
             ELSE extractOneScan_last(query, choices, i + 1, best, cutoff)

\* the scan of extractOne over the choices: best is the index of the
\* current result (0 for none), cutoff the current score_cutoff
RECURSIVE extractOneScan(_, _, _, _, _)
extractOneScan(query, choices, i, best, cutoff) ==
    IF i > Len(choices) THEN best
    ELSE LET score == ratio(query, full_process(choices[i]))
         IN  IF ScoreGE(score, cutoff)
                /\ (best = 0 \/ ScoreGT(score,
                                     ratio(query, full_process(choices[best]))))
             THEN IF score.num = 100 * score.den
                  THEN i
                  ELSE extractOneScan(query, choices, i + 1, i, score)
             ELSE extractOneScan(query, choices, i + 1, best, cutoff)

extractOne(query, choices) ==
    LET best == extractOneScan(full_process(query), choices, 1, 0,
                               [num |-> ScoreCutoff, den |-> 1])
    IN  IF best = 0 THEN None ELSE choices[best]

-----------------------------------------------------------------------------
(* StopReferentialManager *)

match_to_existing_towns(town, towns) ==
    LET matching_town == extractOne(town, towns)
    IN  IF matching_town # None /\ matching_town # <<>>
        THEN matching_town
        ELSE None

DataFrame(rows) == [is_none |-> FALSE, rows |-> rows]
NoneDf == [is_none |-> TRUE, rows |-> <<>>]

\* StopReferentialConfig.load_referential: on a failure the RuntimeError is
\* built but not raised, so the function returns None
load_referential(file_rows, readable) ==
    IF readable THEN DataFrame(file_rows) ELSE NoneDf

RECURSIVE drop_duplicates(_, _)
drop_duplicates(column, seen) ==
    IF column = <<>> THEN <<>>
    ELSE IF Head(column) \in seen THEN drop_duplicates(Tail(column), seen)
    ELSE <<Head(column)>> \o drop_duplicates(Tail(column), seen \cup {Head(column)})

startswith(s, prefix) ==
    /\ Len(prefix) <= Len(s)
    /\ SubSeq(s, 1, Len(prefix)) = prefix

\* df.loc[mask] for the two masks of lines 76-84
RECURSIVE loc(_, _, _)
loc(rows, matching_town, town) ==
    IF rows = <<>> THEN <<>>
    ELSE LET keep == IF matching_town # None
                     THEN Head(rows).arrtown = matching_town
                     ELSE startswith(Head(rows).arrtown, town)
         IN  (IF keep THEN <<Head(rows)>> ELSE <<>>)
                 \o loc(Tail(rows), matching_town, town)

\* the loop of lines 69-85 followed by pd.concat
RECURSIVE filter_loop(_, _, _, _)
filter_loop(rows, towns, selected, filtered) ==
    IF selected = <<>> THEN filtered
    ELSE LET town == Head(selected)
             matching_town == match_to_existing_towns(town, towns)
         IN  filter_loop(rows, towns, Tail(selected),
                         filtered \o loc(rows, matching_town, town))

\* variant: the concatenated frame is deduplicated
filter_referential_dedup(df, selected) ==
    IF df.is_none \/ df.rows = <<>> THEN NoneDf
    ELSE LET towns == drop_duplicates(
                          [i \in 1..Len(df.rows) |-> df.rows[i].arrtown], {})
         IN  DataFrame(drop_duplicates(
                           filter_loop(df.rows, towns, selected, <<>>), {}))

\* a None or column-less frame raises at line 66; the except clause logs
\* and the function returns None
filter_referential(df, selected) ==
    IF df.is_none \/ df.rows = <<>> THEN NoneDf
    ELSE LET towns == drop_duplicates(
                          [i \in 1..Len(df.rows) |-> df.rows[i].arrtown], {})
         IN  DataFrame(filter_loop(df.rows, towns, selected, <<>>))

\* the (id, name) pairs the generator yields; None.empty raises inside the
\* try block, which logs and ends the generator
iter_stops(file_rows, readable, selected) ==
    LET df == load_referential(file_rows, readable)
        filtered_df == filter_referential(df, selected)
    IN  IF filtered_df.is_none THEN <<>>
        ELSE [i \in 1..Len(filtered_df.rows) |->
                 [id |-> filtered_df.rows[i].arrid,
                  name |-> filtered_df.rows[i].arrname]]

-----------------------------------------------------------------------------
(* Inputs *)

Stop(id, name, town) == [arrid |-> id, arrname |-> name, arrtown |-> town]

\* referential used by the retrieval runs: two towns, three stops
Referential ==
    <<Stop(1, "S1", <<"a", "b">>), Stop(2, "S2", <<"a", "b">>),
      Stop(3, "S3", <<"a", "c">>)>>

Catalogs ==
    { Referential,
      <<Stop(1, "S1", <<"a", "b">>), Stop(2, "S2", <<"A", "b">>),
        Stop(3, "S3", <<"a", "b">>), Stop(4, "S4", <<"b">>)>>,
      <<Stop(1, "S1", <<"a", "-", "b">>), Stop(2, "S2", <<"a", "a", "b">>),
        Stop(3, "S3", <<"b", "a">>)>>,
      <<>> }

Alphabet == {"a", "b", "A", "-"}

SeqsUpTo(S, n) == UNION {[1..k -> S] : k \in 0..n}

TownNames == SeqsUpTo(Alphabet, MaxTownLen)

TownLists == UNION {[1..k -> TownNames] : k \in 1..MaxTowns}

ColumnTowns(rows) == drop_duplicates([i \in 1..Len(rows) |-> rows[i].arrtown], {})

\* what the API does for a stop: a payload that normalizes to rows, a
\* payload that normalizes to nothing, a transport / HTTP / JSON error, or
\* no answer at all (requests.get is called without a timeout)
Outcomes == {"rows", "empty", "error", "hang"}

StopIds == {Referential[i].arrid : i \in 1..Len(Referential)}

\* requested town lists of the retrieval runs:
\*   "a"      no fuzzy match, prefix of both towns: three stops
\*   "Ab"     fuzzy match of "ab": two stops
\*   "ac,ac"  the same town twice: stop 3 selected twice
\*   "b"      no match and no prefix: nothing selected
\*   "ac,ab"  two towns, three stops
RunRequests ==
    { << <<"a">> >>,
      << <<"A", "b">> >>,
      << <<"a", "c">>, <<"a", "c">> >>,
      << <<"b">> >>,
      << <<"a", "c">>, <<"a", "b">> >> }

NoCall == [fn |-> "none", done |-> FALSE]

-----------------------------------------------------------------------------
(* The processed csv file and DataFrame.to_csv(mode="a") *)

NoFile == [exists |-> FALSE, lines |-> <<>>]

\* a frame: its column labels in order, and rows of cells in that order;
\* a cell remembers the column it was produced for
Frame(columns, values) ==
    [columns |-> columns,
     rows |-> [r \in 1..Len(values) |->
                  [c \in 1..Len(columns) |->
                      [col |-> columns[c], val |-> values[r]]]]]

HeaderLine(columns) ==
    [c \in 1..Len(columns) |-> [col |-> columns[c], val |-> "header"]]

\* df.to_csv(path, mode="a", header=write_header, index=False): the
\* optional header line, then one line per row, in the frame's own column
\* order
to_csv(file, df, header) ==
    [exists |-> TRUE,
     lines |-> file.lines
                  \o (IF header THEN <<HeaderLine(df.columns)>> ELSE <<>>)
                  \o df.rows]

save_processed_df(file, df) == to_csv(file, df, ~file.exists)

\* the upstream API omits absent fields: the columns of a stop's frame
\* differ from stop to stop
StopColumns(id) ==
    CASE id = 2 -> <<"recordedattime", "destinationname">>
      [] id = 3 -> <<"recordedattime", "vehicleatstop", "destinationname">>
      [] OTHER -> <<"recordedattime", "vehicleatstop">>

\* the non-empty frame format_response returns for a future's stop: one
\* visit
StopFrame(f) == Frame(StopColumns(f.id), <<f.name>>)

-----------------------------------------------------------------------------
(* lru_cache(maxsize=100) around _fetch_stop_point_data *)

CacheKey(f) == <<f.id, f.name>>

cache_hit(c, key) == \E i \in 1..Len(c) : c[i] = key

\* a hit moves the key to the most recently used end
cache_touch(c, key) == SelectSeq(c, LAMBDA k : k # key) \o <<key>>

\* after a miss the result is stored unless another thread stored it in the
\* meantime; the least recently used key is evicted when the cache is full
cache_store(c, key) ==
    IF cache_hit(c, key) THEN c
    ELSE IF Len(c) >= LruMaxsize THEN Tail(c) \o <<key>>
    ELSE c \o <<key>>

-----------------------------------------------------------------------------
(* execute_retrieval_workflow *)

\* the worker limit of a run: MAX_WORKERS is not set in the environment and
\* the default max(1, multiprocessing.cpu_count() - 1) applies
default_max_workers(cpu_count) == Max(1, cpu_count - 1)

Init ==
    /\ selected_towns \in RunRequests
    /\ referential = Referential
    /\ ref_readable \in BOOLEAN
    /\ max_workers \in {default_max_workers(c) : c \in 1..(MaxWorkers + 1)}
    /\ response \in [StopIds -> Outcomes]
    /\ pc = "iter_stops"
    /\ pending_stops = <<>>
    /\ futures = <<>>
    /\ cache = <<>>
    /\ get_count = [id \in StopIds |-> 0]
    /\ total_processed = 0
    /\ total_successful = 0
    /\ sink = <<>>
    /\ result = NoResult
    /\ error = "none"
    /\ args = NoCall
    /\ ret = NoCall
    /\ csv = NoFile
    /\ writers = {}

\* first next() on the generator of line 388: load, filter
IterStops ==
    /\ pc = "iter_stops"
    /\ LET stops == iter_stops(referential, ref_readable, selected_towns)
       IN  /\ pending_stops' = stops
           /\ pc' = IF stops = <<>> THEN "as_completed" ELSE "submit"
    /\ UNCHANGED <<selected_towns, referential, ref_readable, max_workers,
                   response, futures, cache, get_count, total_processed,
                   total_successful, sink, result, error, args, ret, csv, writers>>

\* executor.submit for the next yielded stop (lines 384-389)
Submit ==
    /\ pc = "submit"
    /\ pending_stops # <<>>
    /\ futures' = Append(futures, [id |-> Head(pending_stops).id,
                                   name |-> Head(pending_stops).name,
                                   state |-> "pending", yielded |-> FALSE])
    /\ pending_stops' = Tail(pending_stops)
    /\ pc' = IF Tail(pending_stops) = <<>> THEN "as_completed" ELSE "submit"
    /\ UNCHANGED <<selected_towns, referential, ref_readable, max_workers,
                   response, cache, get_count, total_processed,
                   total_successful, sink, result, error, args, ret, csv, writers>>

Running == Cardinality({i \in 1..Len(futures) : futures[i].state = "running"})

FirstPending(i) ==
    /\ futures[i].state = "pending"
    /\ \A j \in 1..(i - 1) : futures[j].state # "pending"

\* variant: a work item is started although every worker thread is busy
WorkerFetch_unbounded(i) ==
    /\ pc \in {"submit", "as_completed", "save_processed_df", "shutdown"}
    /\ FirstPending(i)
    /\ IF cache_hit(cache, CacheKey(futures[i]))
       THEN /\ futures' = [futures EXCEPT ![i].state = "result"]
            /\ cache' = cache_touch(cache, CacheKey(futures[i]))
            /\ UNCHANGED get_count
       ELSE /\ futures' = [futures EXCEPT ![i].state = "running"]
            /\ get_count' = [get_count EXCEPT ![futures[i].id] = @ + 1]
            /\ UNCHANGED cache
    /\ UNCHANGED <<selected_towns, referential, ref_readable, max_workers,
                   response, pc, pending_stops, total_processed,
                   total_successful, sink, result, error, args, ret, csv,
                   writers>>

\* variant: a work item answered from the cache is dropped instead of being
\* handed to the aggregation loop
WorkerFetch_drop_cached(i) ==
    /\ pc \in {"submit", "as_completed", "save_processed_df", "shutdown"}
    /\ FirstPending(i)
    /\ Running < max_workers
    /\ IF cache_hit(cache, CacheKey(futures[i]))
       THEN /\ futures' = [futures EXCEPT ![i].state = "result",
                                          ![i].yielded = TRUE]
            /\ cache' = cache_touch(cache, CacheKey(futures[i]))
            /\ UNCHANGED get_count
       ELSE /\ futures' = [futures EXCEPT ![i].state = "running"]
            /\ get_count' = [get_count EXCEPT ![futures[i].id] = @ + 1]
            /\ UNCHANGED cache
    /\ UNCHANGED <<selected_towns, referential, ref_readable, max_workers,
                   response, pc, pending_stops, total_processed,
                   total_successful, sink, result, error, args, ret, csv, writers>>

\* a free worker thread takes the oldest queued work item and calls the
\* memoized _fetch_stop_point_data: a cache hit returns at once, a miss
\* sends the GET (line 335)
WorkerFetch(i) ==
    /\ pc \in {"submit", "as_completed", "save_processed_df", "shutdown"}
    /\ FirstPending(i)
    /\ Running < max_workers
    /\ IF cache_hit(cache, CacheKey(futures[i]))
       THEN /\ futures' = [futures EXCEPT ![i].state = "result"]
            /\ cache' = cache_touch(cache, CacheKey(futures[i]))
            /\ UNCHANGED get_count
       ELSE /\ futures' = [futures EXCEPT ![i].state = "running"]
            /\ get_count' = [get_count EXCEPT ![futures[i].id] = @ + 1]
            /\ UNCHANGED cache
    /\ UNCHANGED <<selected_towns, referential, ref_readable, max_workers,
                   response, pc, pending_stops, total_processed,
                   total_successful, sink, result, error, args, ret, csv, writers>>

\* variant: the worker thread normalizes the payload and appends the rows
\* to the csv itself
GetReturns_saves(i) ==
    /\ futures[i].state = "running"
    /\ response[futures[i].id] \in {"rows", "empty"}
    /\ futures' = [futures EXCEPT ![i].state = "result"]
    /\ cache' = cache_store(cache, CacheKey(futures[i]))
    /\ IF response[futures[i].id] = "rows"
       THEN /\ csv' = save_processed_df(csv, StopFrame(futures[i]))
            /\ sink' = Append(sink, futures[i].name)
       ELSE UNCHANGED <<csv, sink>>
    /\ UNCHANGED <<selected_towns, referential, ref_readable, max_workers,
                   response, pc, pending_stops, get_count, total_processed,
                   total_successful, result, error, args, ret, writers>>

\* the GET answers with a 2xx JSON payload: the result is cached and set
\* on the future (lines 336-341)
GetReturns(i) ==
    /\ futures[i].state = "running"
    /\ response[futures[i].id] \in {"rows", "empty"}
    /\ futures' = [futures EXCEPT ![i].state = "result"]
    /\ cache' = cache_store(cache, CacheKey(futures[i]))
    /\ UNCHANGED <<selected_towns, referential, ref_readable, max_workers,
                   response, pc, pending_stops, get_count, total_processed,
                   total_successful, sink, result, error, args, ret, csv, writers>>

\* requests.get, raise_for_status or json() raises: the exception is set
\* on the future, nothing is cached
GetRaises(i) ==
    /\ futures[i].state = "running"
    /\ response[futures[i].id] = "error"
    /\ futures' = [futures EXCEPT ![i].state = "exception"]
    /\ UNCHANGED <<selected_towns, referential, ref_readable, max_workers,
                   response, pc, pending_stops, cache, get_count,
                   total_processed, total_successful, sink, result, error,
                   args, ret, csv, writers>>

\* variant: every normalized payload counts as processed
is_processed_always(outcome) ==
    TRUE

\* format_response yields a non-empty frame exactly for a payload with rows
is_processed(outcome) ==
    outcome = "rows"

\* as_completed yields a finished future holding a result (lines 391-399):
\* count it and normalize it (lines 362-363); a non-empty frame is then
\* saved by the same thread
ProcessResponse(i) ==
    /\ pc = "as_completed"
    /\ ~futures[i].yielded
    /\ futures[i].state = "result"
    /\ futures' = [futures EXCEPT ![i].yielded = TRUE]
    /\ total_processed' = total_processed + 1
    /\ IF is_processed(response[futures[i].id])
       THEN /\ pc' = "save_processed_df"
            /\ writers' = writers \cup {[thread |-> "MainThread", future |-> i]}
       ELSE UNCHANGED <<pc, writers>>
    /\ UNCHANGED <<selected_towns, referential, ref_readable, max_workers,
                   response, pending_stops, cache, get_count,
                   total_successful, sink, result, error, args, ret, csv>>

\* _save_processed_df appends the frame to the csv and returns (lines
\* 343-354, 366-369); the loop adds is_processed to total_successful
SaveProcessedDf ==
    /\ pc = "save_processed_df"
    /\ \E w \in writers :
          /\ w.thread = "MainThread"
          /\ csv' = save_processed_df(csv, StopFrame(futures[w.future]))
          /\ sink' = Append(sink, futures[w.future].name)
          /\ writers' = writers \ {w}
    /\ total_successful' = total_successful + 1
    /\ pc' = "as_completed"
    /\ UNCHANGED <<selected_towns, referential, ref_readable, max_workers,
                   response, pending_stops, futures, cache, get_count,
                   total_processed, result, error, args, ret>>

\* as_completed yields a finished future holding an exception: result()
\* re-raises it, the handler logs and raises again (lines 401-405), which
\* leaves the loop and enters the executor's __exit__
ReRaise(i) ==
    /\ pc = "as_completed"
    /\ ~futures[i].yielded
    /\ futures[i].state = "exception"
    /\ futures' = [futures EXCEPT ![i].yielded = TRUE]
    /\ pc' = "shutdown"
    /\ error' = "RequestException"
    /\ UNCHANGED <<selected_towns, referential, ref_readable, max_workers,
                   response, pending_stops, cache, get_count, total_processed,
                   total_successful, sink, result, args, ret, csv, writers>>

\* executor.shutdown(wait=True) on the exceptional exit: queued work items
\* still run; once all have finished the exception leaves the workflow
ShutdownRaise ==
    /\ pc = "shutdown"
    /\ \A i \in 1..Len(futures) : futures[i].state \in {"result", "exception"}
    /\ pc' = "raised"
    /\ UNCHANGED <<selected_towns, referential, ref_readable, max_workers,
                   response, pending_stops, futures, cache, get_count,
                   total_processed, total_successful, sink, result, error,
                   args, ret, csv, writers>>

\* every future was yielded: the pool exits and the result is built
\* (lines 407-418)
ReturnResult ==
    /\ pc = "as_completed"
    /\ \A i \in 1..Len(futures) : futures[i].yielded
    /\ LET r == BuildResult(total_processed, total_successful)
       IN  IF r.raised # "none"
           THEN /\ pc' = "raised"
                /\ error' = r.raised
                /\ UNCHANGED result
           ELSE /\ pc' = "returned"
                /\ result' = r
                /\ UNCHANGED error
    /\ UNCHANGED <<selected_towns, referential, ref_readable, max_workers,
                   response, pending_stops, futures, cache, get_count,
                   total_processed, total_successful, sink, args, ret, csv, writers>>

Next ==
    \/ IterStops
    \/ Submit
    \/ \E i \in 1..Len(futures) : WorkerFetch(i)
    \/ \E i \in 1..Len(futures) : GetReturns(i)
    \/ \E i \in 1..Len(futures) : GetRaises(i)
    \/ \E i \in 1..Len(futures) : ProcessResponse(i)
    \/ SaveProcessedDf
    \/ \E i \in 1..Len(futures) : ReRaise(i)
    \/ ShutdownRaise
    \/ ReturnResult

Spec == Init /\ [][Next]_vars

\* once the pool exists, the orchestrator thread and the pool's worker
\* threads are all scheduled
FairSpec ==
    /\ Init
    /\ [][Next]_vars
    /\ WF_vars(Submit \/ SaveProcessedDf \/ ShutdownRaise \/ ReturnResult)
    /\ WF_vars(\E i \in 1..Len(futures) : ProcessResponse(i) \/ ReRaise(i))
    /\ WF_vars(\E i \in 1..Len(futures) :
                  WorkerFetch(i) \/ GetReturns(i) \/ GetRaises(i))

-----------------------------------------------------------------------------
(* Direct calls of the pure functions *)

Idle ==
    /\ max_workers = 1
    /\ response = <<>>
    /\ pc = "idle"
    /\ pending_stops = <<>>
    /\ futures = <<>>
    /\ cache = <<>>
    /\ get_count = <<>>
    /\ total_processed = 0
    /\ total_successful = 0
    /\ sink = <<>>
    /\ result = NoResult
    /\ error = "none"
    /\ csv = NoFile
    /\ writers = {}

IdleVars ==
    <<selected_towns, referential, ref_readable, max_workers, response, pc,
      pending_stops, futures, cache, get_count, total_processed,
      total_successful, sink, result, error, csv, writers>>

ResultInit ==
    /\ Idle
    /\ selected_towns = <<>>
    /\ referential = <<>>
    /\ ref_readable = TRUE
    /\ args \in {[fn |-> "result", done |-> FALSE, processed |-> p,
                  successful |-> s] : p \in 0..MaxCount, s \in 0..MaxCount}
    /\ args.successful <= args.processed
    /\ ret = NoCall

\* the call of lines 412-418 on given counters
CallBuildResult ==
    /\ args.fn = "result"
    /\ ~args.done
    /\ args' = [args EXCEPT !.done = TRUE]
    /\ ret' = BuildResult(args.processed, args.successful)
    /\ UNCHANGED IdleVars

ResultNext == CallBuildResult

ResultSpec == ResultInit /\ [][ResultNext]_vars

SelInit ==
    /\ Idle
    /\ selected_towns \in TownLists
    /\ referential \in Catalogs
    /\ ref_readable = TRUE
    /\ args = NoCall
    /\ ret = NoCall

\* the call of line 70 for one of the selected towns
CallMatch(k) ==
    /\ args.fn = "none"
    /\ referential # <<>>
    /\ args' = [fn |-> "match", done |-> TRUE, town |-> selected_towns[k]]
    /\ ret' = match_to_existing_towns(selected_towns[k],
                                      ColumnTowns(referential))
    /\ UNCHANGED IdleVars

\* exhausting the generator of lines 98-117
CallIterStops ==
    /\ args.fn = "none"
    /\ args' = [fn |-> "iter_stops", done |-> TRUE]
    /\ ret' = iter_stops(referential, ref_readable, selected_towns)
    /\ UNCHANGED IdleVars

SelNext ==
    \/ \E k \in 1..Len(selected_towns) : CallMatch(k)
    \/ CallIterStops

SelSpec == SelInit /\ [][SelNext]_vars

-----------------------------------------------------------------------------
(* Properties *)

Terminal == pc \in {"returned", "raised"}

SelectedIds == {futures[i].id : i \in 1..Len(futures)}

SinkNames == {sink[i] : i \in 1..Len(sink)}

\* hundredths of a percent written in a "d.dd%" string
ParsePercent(s) == int(SelectSeq(s, LAMBDA c : c \notin {".", "%"}))

Zero00 == <<"0", ".", "0", "0", "%">>

\* C1: when the fetch of one selected stop fails, the failure is contained:
\* the run still returns a result and the rows of every other stop that
\* answered with data are appended to the sink.
C1_FetchFailureIsolated ==
    (Terminal /\ \E i \in 1..Len(futures) : response[futures[i].id] = "error")
        => /\ pc = "returned"
           /\ \A j \in 1..Len(futures) :
                 response[futures[j].id] = "rows" => futures[j].name \in SinkNames

\* the case of C2: three stops were submitted, one never answers and the
\* two others return well-formed data
C2_OneOfThreeHangs ==
    /\ pc = "as_completed"
    /\ Len(futures) = 3
    /\ Cardinality(SelectedIds) = 3
    /\ Cardinality({id \in SelectedIds : response[id] = "hang"}) = 1
    /\ Cardinality({id \in SelectedIds : response[id] = "rows"}) = 2

\* C2: a stop that never answers is counted as a failure and the run still
\* settles: with one of three stops hanging the run eventually returns
\* totalProcessed=3, totalFailed=1, totalSuccessful=2, PARTIAL_SUCCESS.
C2_TimeoutSettlesRun ==
    C2_OneOfThreeHangs
        ~> (/\ pc = "returned"
            /\ result.total_processed = <<"3">>
            /\ result.total_failed = <<"1">>
            /\ result.total_successful = <<"2">>
            /\ result.status = "PARTIAL_SUCCESS")

\* C3: for counts with totalProcessed > 0 the status is SUCCESS when all
\* processed stops were successful, FAILED when none was, and
\* PARTIAL_SUCCESS otherwise.
C3_StatusDerivation ==
    (args.done /\ args.processed > 0)
        => /\ ret.raised = "none"
           /\ ret.status = IF args.successful = args.processed THEN "SUCCESS"
                           ELSE IF args.successful = 0 THEN "FAILED"
                           ELSE "PARTIAL_SUCCESS"

\* C4: every returned result has totalProcessed = totalSuccessful +
\* totalFailed, and when totalProcessed > 0 its two rates add up to 100%
\* up to the rounding of the second decimal.
C4_AggregationInvariant ==
    pc = "returned"
        => /\ int(result.total_processed)
                  = int(result.total_successful) + int(result.total_failed)
           /\ int(result.total_processed) > 0
                  => (ParsePercent(result.success_rate)
                          + ParsePercent(result.failure_rate)) \in 9999..10001

\* a run returned after processing three stops of which some, not all,
\* produced rows
C4_Witness ==
    /\ pc = "returned"
    /\ total_processed = 3
    /\ total_successful = 1
    /\ result.success_rate = <<"3", "3", ".", "3", "3", "%">>

\* C5: when the result is built from zero processed stops the construction
\* succeeds and both rates are 0%.
C5_ZeroProcessedRates ==
    (Terminal /\ futures = <<>>)
        => /\ pc = "returned"
           /\ ParsePercent(result.success_rate) = 0
           /\ ParsePercent(result.failure_rate) = 0

\* C6: when no catalog stop matches any requested town the run fails with
\* an EmptySelection error of its own kind, and no fetch is issued.
C6_EmptySelectionError ==
    (Terminal /\ ref_readable
        /\ iter_stops(referential, ref_readable, selected_towns) = <<>>)
        => /\ pc = "raised"
           /\ error = "EmptySelection"
           /\ \A id \in StopIds : get_count[id] = 0

\* C7: within one run at most one GET is issued for a stop id, however the
\* worker threads interleave.
C7_AtMostOneGetPerStop ==
    \A id \in DOMAIN get_count : get_count[id] <= 1

\* C8: the counts of a returned result are a function of the selected stops
\* and of the per-stop outcomes alone, whatever max_workers and the
\* completion order were.
C8_CountsIndependentOfWorkers ==
    pc = "returned"
        => LET stops == iter_stops(referential, ref_readable, selected_towns)
           IN  /\ result.total_processed = str(Len(stops))
               /\ result.total_successful =
                      str(Cardinality({i \in 1..Len(stops) :
                                          response[stops[i].id] = "rows"}))

\* a run with several workers returned after the futures completed in an
\* order other than the submission order
C8_Witness ==
    /\ pc = "returned"
    /\ max_workers >= 2
    /\ Len(sink) >= 2
    /\ sink[1] # futures[1].name
    /\ total_processed > total_successful

C9_Score(i) ==
    ratio(full_process(args.town), full_process(ColumnTowns(referential)[i]))

C9_FirstBest ==
    LET n == Len(ColumnTowns(referential))
        best == {i \in 1..n : \A j \in 1..n : ScoreGE(C9_Score(i), C9_Score(j))}
    IN  CHOOSE i \in best : \A j \in best : i <= j

\* C9: the town returned is the catalog town of maximum similarity, the
\* first one in catalog order among equals, and it is returned only when
\* its score is at least 70; otherwise there is no match.
C9_TownResolution ==
    args.fn = "match"
        => IF ScoreGE(C9_Score(C9_FirstBest), [num |-> 70, den |-> 1])
           THEN ret = ColumnTowns(referential)[C9_FirstBest]
           ELSE ret = None

\* a match that was decided between two catalog towns of equal best score
C9_Witness ==
    /\ args.fn = "match"
    /\ ret # None
    /\ \E j \in 1..Len(ColumnTowns(referential)) :
          /\ j # C9_FirstBest
          /\ ScoreGE(C9_Score(j), C9_Score(C9_FirstBest))
          /\ C9_Score(j).num < 100 * C9_Score(j).den

RECURSIVE C10_Flatten(_)
C10_Flatten(ss) == IF ss = <<>> THEN <<>> ELSE Head(ss) \o C10_Flatten(Tail(ss))

\* whether the pass of the k-th requested town selects a catalog row
C10_Selects(k, row) ==
    LET m == match_to_existing_towns(selected_towns[k], ColumnTowns(referential))
    IN  IF m # None THEN row.arrtown = m
        ELSE startswith(row.arrtown, selected_towns[k])

C10_Contribution(k) ==
    LET rows == SelectSeq(referential, LAMBDA row : C10_Selects(k, row))
    IN  [i \in 1..Len(rows) |-> [id |-> rows[i].arrid, name |-> rows[i].arrname]]

\* C10: the selected stops are the concatenation, in the order of the
\* requested towns, of each town's rows in catalog order (rows of the
\* matched town, or rows whose town starts with the requested string when
\* nothing matched); a stop selected by k passes appears k times.
C10_SelectionComposition ==
    args.fn = "iter_stops"
        => /\ ret = C10_Flatten([k \in 1..Len(selected_towns) |-> C10_Contribution(k)])
           /\ \A r \in 1..Len(referential) :
                 Cardinality({p \in 1..Len(ret) : ret[p].id = referential[r].arrid})
                     = Cardinality({k \in 1..Len(selected_towns) :
                                       C10_Selects(k, referential[r])})

\* two different requested towns, one resolved by prefix and one by a fuzzy
\* match, both selected the same stop
C10_Witness ==
    /\ args.fn = "iter_stops"
    /\ Len(selected_towns) = 2
    /\ selected_towns[1] # selected_towns[2]
    /\ match_to_existing_towns(selected_towns[1], ColumnTowns(referential)) = None
    /\ match_to_existing_towns(selected_towns[2], ColumnTowns(referential)) # None
    /\ \E p, q \in 1..Len(ret) : p < q /\ ret[p].id = ret[q].id

\* C14: a referential that cannot be read or parsed at load time is fatal:
\* the run ends with the referential error (the RuntimeError of
\* load_referential) and without any fetch, it is not turned into an empty
\* selection.
C14_ReferentialLoadFatal ==
    (Terminal /\ ~ref_readable)
        => /\ pc = "raised"
           /\ error = "RuntimeError"
           /\ futures = <<>>

RowFutures == {i \in 1..Len(futures) : response[futures[i].id] = "rows"}

\* C15: total_successful counts exactly the appends to the sink, and in a
\* completed run it is the number of selected stops whose normalized output
\* was non-empty, all of them appended; a stop with an empty normalization
\* is counted as processed only and appends nothing.
C15_SuccessAccounting ==
    /\ total_successful = Len(sink)
    /\ Len(csv.lines) = IF csv.exists THEN Len(sink) + 1 ELSE 0
    /\ \A k \in 1..Len(sink) :
          \E i \in RowFutures : futures[i].yielded /\ futures[i].name = sink[k]
    /\ pc = "returned"
          => /\ int(result.total_successful) = Cardinality(RowFutures)
             /\ int(result.total_processed) = Len(futures)
             /\ Len(sink) = Cardinality(RowFutures)

\* a completed run with a stop that produced rows and a stop whose
\* normalization was empty
C15_Witness ==
    /\ pc = "returned"
    /\ RowFutures # {}
    /\ \E i \in 1..Len(futures) : response[futures[i].id] = "empty"
    /\ int(result.total_processed) = int(result.total_successful) + 1

\* C16: at most one append to the sink is in progress, it is made by the
\* thread of the aggregation loop for a future whose result it received,
\* and the sink changes in no other step.
C16_SingleWriter ==
    [][/\ Cardinality(writers') <= 1
       /\ \A w \in writers' :
             /\ w.thread = "MainThread"
             /\ futures'[w.future].state = "result"
             /\ futures'[w.future].yielded
       /\ (csv' # csv \/ sink' # sink)
             => /\ pc = "save_processed_df"
                /\ Cardinality(writers) = 1
                /\ writers' = {}]_vars

\* an append is in progress while a worker thread is still fetching
C16_Witness ==
    /\ pc = "save_processed_df"
    /\ writers # {}
    /\ Running >= 1
    /\ csv.exists

\* C17: one task is dispatched per selected stop, in selection order; the
\* number of fetches in flight never exceeds the worker limit, which is a
\* positive integer, the default max(1, cpu_count - 1).
C17_BoundedConcurrency ==
    /\ max_workers \in Nat \ {0}
    /\ \E c \in 1..(max_workers + 1) : max_workers = Max(1, c - 1)
    /\ Running <= max_workers
    /\ pc # "iter_stops"
          => LET stops == iter_stops(referential, ref_readable, selected_towns)
             IN  /\ Len(futures) <= Len(stops)
                 /\ \A i \in 1..Len(futures) :
                       /\ futures[i].id = stops[i].id
                       /\ futures[i].name = stops[i].name
                 /\ pc # "submit" => Len(futures) = Len(stops)

\* every worker thread is busy and a submitted task is waiting for one
C17_Witness ==
    /\ Running = max_workers
    /\ max_workers >= 2
    /\ \E i \in 1..Len(futures) : futures[i].state = "pending"

-----------------------------------------------------------------------------
(* StopMonitoringConfig *)

RECURSIVE split(_, _)
split(s, sep) ==
    IF s = <<>> THEN << <<>> >>
    ELSE IF Head(s) = sep THEN << <<>> >> \o split(Tail(s), sep)
    ELSE LET rest == split(Tail(s), sep)
         IN  << <<Head(s)>> \o Head(rest) >> \o Tail(rest)

strip(s) == rstrip(lstrip(s))

NoneValue == [type |-> "NoneType", v |-> 0]
StrValue(chars) == [type |-> "str", v |-> chars]
IntValue(n) == [type |-> "int", v |-> n]
ListValue(items) == [type |-> "list", v |-> items]

\* Python truthiness of the values above
truthy(val) ==
    CASE val.type = "NoneType" -> FALSE
      [] val.type = "int" -> val.v # 0
      [] OTHER -> Len(val.v) > 0

get_selected_towns(selected_towns_str) ==
    IF truthy(StrValue(selected_towns_str))
    THEN LET pieces == split(selected_towns_str, ",")
         IN  ListValue([i \in 1..Len(pieces) |-> strip(pieces[i])])
    ELSE NoneValue

\* os.environ.get(key, default): a set variable is always a str
get_environment_var(env, default) == IF env.set THEN StrValue(env.value) ELSE default

validate_positive_value(val) ==
    IF val.type # "int" THEN "ValueError"
    ELSE IF val.v <= 0 THEN "ValueError"
    ELSE "none"

validate_required_vars(vals) ==
    IF \E i \in 1..Len(vals) : ~truthy(vals[i]) THEN "ValueError" ELSE "none"

\* StopMonitoringConfig.__init__: raised names the exception that leaves
\* the constructor
StopMonitoringConfig(selected_towns_str, env_max_workers, env_api_key, cpu_count) ==
    LET towns == get_selected_towns(selected_towns_str)
        workers == get_environment_var(env_max_workers,
                                       IntValue(default_max_workers(cpu_count)))
        api_key == get_environment_var(env_api_key, NoneValue)
        failed(exc) == [raised |-> exc, selected_towns |-> NoneValue,
                        max_workers |-> NoneValue]
    IN  IF api_key.type = "NoneType" THEN failed("RuntimeError")
        ELSE IF validate_positive_value(workers) # "none" THEN failed("ValueError")
        ELSE IF validate_required_vars(<<api_key, towns>>) # "none"
        THEN failed("ValueError")
        ELSE [raised |-> "none", selected_towns |-> towns, max_workers |-> workers]

InputAlphabet == {"a", " ", ","}

EnvValues ==
    {[set |-> FALSE, value |-> <<>>], [set |-> TRUE, value |-> <<>>],
     [set |-> TRUE, value |-> <<"2">>]}

ConfigInit ==
    /\ Idle
    /\ selected_towns = <<>>
    /\ referential = <<>>
    /\ ref_readable = TRUE
    /\ args \in {[fn |-> "config", done |-> FALSE, selected_towns |-> t,
                  MAX_WORKERS |-> w, IDF_MOBILITE_API_KEY |-> k, cpu_count |-> c] :
                    t \in SeqsUpTo(InputAlphabet, MaxInputLen),
                    w \in EnvValues, k \in EnvValues, c \in 1..(MaxWorkers + 1)}
    /\ ret = NoCall

\* the construction of api.py lines 45-47
CallStopMonitoringConfig ==
    /\ args.fn = "config"
    /\ ~args.done
    /\ args' = [args EXCEPT !.done = TRUE]
    /\ ret' = StopMonitoringConfig(args.selected_towns, args.MAX_WORKERS,
                                   args.IDF_MOBILITE_API_KEY, args.cpu_count)
    /\ UNCHANGED IdleVars

ConfigNext == CallStopMonitoringConfig

ConfigSpec == ConfigInit /\ [][ConfigNext]_vars

\* C11: the configuration is rejected whenever the town list is empty after
\* trimming (an input made of blanks and commas only), and no accepted
\* configuration holds an empty town name.
C11_TownListValidated ==
    (args.fn = "config" /\ args.done)
        => /\ (\A i \in 1..Len(args.selected_towns) :
                    args.selected_towns[i] \in {" ", ","})
                  => ret.raised # "none"
           /\ ret.raised = "none"
                  => \A i \in 1..Len(ret.selected_towns.v) :
                        ret.selected_towns.v[i] # <<>>

-----------------------------------------------------------------------------
(* Successive appends to the processed csv *)

CsvColumns == {"recordedattime", "vehicleatstop", "destinationname"}

\* the frames format_response can hand over: any non-empty list of distinct
\* columns, one row
Batches ==
    {Frame(cols, <<"visit">>) :
        cols \in {c \in SeqsUpTo(CsvColumns, Cardinality(CsvColumns)) :
                     /\ c # <<>>
                     /\ \A i, j \in 1..Len(c) : i # j => c[i] # c[j]}}

SinkInit ==
    /\ Idle
    /\ selected_towns = <<>>
    /\ referential = <<>>
    /\ ref_readable = TRUE
    /\ args = [fn |-> "save", done |-> FALSE, appends |-> 0]
    /\ ret = NoCall

\* one call of _save_processed_df; the file stays on disk between calls
\* and between runs
CallSaveProcessedDf(df) ==
    /\ args.fn = "save"
    /\ args.appends < MaxAppends
    /\ args' = [args EXCEPT !.done = TRUE, !.appends = @ + 1]
    /\ csv' = save_processed_df(csv, df)
    /\ UNCHANGED <<selected_towns, referential, ref_readable, max_workers,
                   response, pc, pending_stops, futures, cache, get_count,
                   total_processed, total_successful, sink, result, error,
                   ret, writers>>

SinkNext == \E df \in Batches : CallSaveProcessedDf(df)

SinkSpec == SinkInit /\ [][SinkNext]_vars

\* C13: after any sequence of appends the file starts with the only header
\* line, every data line is as wide as the header, and every stored value
\* sits under the column it was produced for.
C13_SinkSchemaTolerance ==
    csv.exists
        => LET header == csv.lines[1]
           IN  /\ \A c \in 1..Len(header) : header[c].val = "header"
               /\ \A l \in 2..Len(csv.lines) :
                     /\ Len(csv.lines[l]) = Len(header)
                     /\ \A c \in 1..Len(csv.lines[l]) :
                           /\ csv.lines[l][c].val # "header"
                           /\ c <= Len(header)
                           /\ csv.lines[l][c].col = header[c].col

-----------------------------------------------------------------------------
(* StopMonitoringDataFormatter: the shape of the frame through the stages *)

MonitoredVehicleJourney == "MonitoredVehicleJourney"

targets == {"FramedVehicleJourneyRef", "TrainNumbers", "MonitoredCall"}

\* pd.DataFrame(): no columns, no rows
EmptyFrame == [columns |-> {}, nrows |-> 0]

\* df.empty
empty(df) ==
    df.columns = {} \/ df.nrows = 0

\* A visit always carries RecordedAtTime; has_mvj tells whether it carries
\* MonitoredVehicleJourney and mvj which of its keys are there.
Visits ==
    {[has_mvj |-> FALSE, mvj |-> {}]}
        \cup {[has_mvj |-> TRUE, mvj |-> k] : k \in SUBSET targets}

VisitKeys(visit) ==
    {"RecordedAtTime"}
        \cup (IF visit.has_mvj THEN {MonitoredVehicleJourney} ELSE {})

\* the decoded JSON body: each container is missing, null, an empty object
\* or an object; the delivery is missing, null, an object or a list of
\* entries, each entry being the list under its MonitoredStopVisit key
Payloads ==
    {[siri |-> k, service_delivery |-> "missing", delivery |-> "missing",
      entries |-> <<>>] : k \in {"missing", "empty", "null"}}
    \cup {[siri |-> "object", service_delivery |-> k, delivery |-> "missing",
           entries |-> <<>>] : k \in {"missing", "empty", "null"}}
    \cup {[siri |-> "object", service_delivery |-> "object", delivery |-> k,
           entries |-> <<>>] : k \in {"missing", "null", "object"}}
    \cup {[siri |-> "object", service_delivery |-> "object",
           delivery |-> "list", entries |-> e] :
              e \in SeqsUpTo(SeqsUpTo(Visits, MaxVisits), MaxEntries)}

\* response.get("Siri", {}).get("ServiceDelivery", {})
\*         .get("StopMonitoringDelivery", []): the default only stands in
\* for a missing key, a null container has no get
extract_StopMonitoringDelivery(payload) ==
    IF payload.siri = "null"
    THEN [raised |-> "AttributeError", kind |-> "none", entries |-> <<>>]
    ELSE IF payload.siri \in {"missing", "empty"}
    THEN [raised |-> "none", kind |-> "list", entries |-> <<>>]
    ELSE IF payload.service_delivery = "null"
    THEN [raised |-> "AttributeError", kind |-> "none", entries |-> <<>>]
    ELSE IF payload.service_delivery \in {"missing", "empty"}
    THEN [raised |-> "none", kind |-> "list", entries |-> <<>>]
    ELSE IF payload.delivery = "missing"
    THEN [raised |-> "none", kind |-> "list", entries |-> <<>>]
    ELSE [raised |-> "none", kind |-> payload.delivery,
          entries |-> payload.entries]

RECURSIVE Flatten(_)
Flatten(entries) ==
    IF entries = <<>> THEN <<>>
    ELSE Head(entries) \o Flatten(Tail(entries))

\* pd.DataFrame(results): one row per visit, one column per key seen
extract_MonitoredStopVisit_entries(delivery) ==
    IF delivery.kind # "list"
    THEN [columns |-> {}, nrows |-> 0, rows |-> <<>>]
    ELSE LET results == Flatten(delivery.entries)
         IN  [columns |-> UNION {VisitKeys(results[i]) :
                                    i \in 1..Len(results)},
              nrows |-> Len(results),
              rows |-> results]

\* df[target].apply(pd.Series): a dict gives its keys, the NaN of a row
\* without the target gives the column 0
ExpandedColumns(rows) ==
    UNION {IF rows[i].has_mvj THEN rows[i].mvj ELSE {"0"} :
              i \in 1..Len(rows)}

expand_MonitoredVehicleJourney(df) ==
    IF MonitoredVehicleJourney \notin df.columns
    THEN [columns |-> {}, nrows |-> 0, rows |-> <<>>]
    ELSE [columns |-> (df.columns \ {MonitoredVehicleJourney})
                          \cup ExpandedColumns(df.rows),
          nrows |-> df.nrows,
          rows |-> df.rows]

\* the fields of each target once expanded
Fields(col) ==
    CASE col = "FramedVehicleJourneyRef" -> {"DatedVehicleJourneyRef"}
      [] col = "TrainNumbers" -> {"TrainNumberRef"}
      [] col = "MonitoredCall" -> {"ExpectedArrivalTime", "VehicleAtStop"}
      [] OTHER -> {col}

\* a variant that expands whatever targets are there
expand_FramedVehicleJourneyRef_and_MonitoredCall_partial(df) ==
    IF targets \cap df.columns = {}
    THEN [columns |-> {}, nrows |-> 0, rows |-> <<>>]
    ELSE [columns |-> UNION {Fields(col) : col \in df.columns},
          nrows |-> df.nrows,
          rows |-> df.rows]

expand_FramedVehicleJourneyRef_and_MonitoredCall(df) ==
    LET missing_columns == {col \in targets : col \notin df.columns}
    IN  IF missing_columns # {}
        THEN [columns |-> {}, nrows |-> 0, rows |-> <<>>]
        ELSE [columns |-> (df.columns \ targets)
                              \cup UNION {Fields(col) : col \in targets},
              nrows |-> df.nrows,
              rows |-> df.rows]

\* df.columns.str.lower(); the integer label 0 has no lower case
lower(col) ==
    CASE col = "RecordedAtTime" -> "recordedattime"
      [] col = "DatedVehicleJourneyRef" -> "datedvehiclejourneyref"
      [] col = "TrainNumberRef" -> "trainnumberref"
      [] col = "ExpectedArrivalTime" -> "expectedarrivaltime"
      [] col = "VehicleAtStop" -> "vehicleatstop"
      [] OTHER -> "nan"

\* the two value-cleaning stages rewrite cells and leave the shape alone
format_response(payload) ==
    LET delivery == extract_StopMonitoringDelivery(payload)
        df == expand_FramedVehicleJourneyRef_and_MonitoredCall(
                  expand_MonitoredVehicleJourney(
                      extract_MonitoredStopVisit_entries(delivery)))
    IN  IF delivery.raised # "none"
        THEN [raised |-> delivery.raised, columns |-> {}, nrows |-> 0]
        ELSE IF empty(df)
        THEN [raised |-> "none", columns |-> df.columns, nrows |-> df.nrows]
        ELSE [raised |-> "none",
              columns |-> {lower(col) : col \in df.columns},
              nrows |-> df.nrows]

FormatInit ==
    /\ Idle
    /\ selected_towns = <<>>
    /\ referential = <<>>
    /\ ref_readable = TRUE
    /\ \E payload \in Payloads :
          args = [fn |-> "format", done |-> FALSE, payload |-> payload]
    /\ ret = NoCall

CallFormatResponse ==
    /\ args.fn = "format"
    /\ ~args.done
    /\ args' = [args EXCEPT !.done = TRUE]
    /\ ret' = format_response(args.payload)
    /\ UNCHANGED IdleVars

FormatNext == CallFormatResponse

FormatSpec == FormatInit /\ [][FormatNext]_vars

AllVisits(payload) == Flatten(payload.entries)

\* the cases in which the expected structure is absent: a container missing
\* or empty, a delivery that is no list, no visit with
\* MonitoredVehicleJourney, or a target that no visit carries
StructureAbsent(payload) ==
    \/ payload.siri \in {"missing", "empty"}
    \/ payload.siri = "object"
          /\ payload.service_delivery \in {"missing", "empty"}
    \/ /\ payload.siri = "object"
       /\ payload.service_delivery = "object"
       /\ \/ payload.delivery # "list"
          \/ \A i \in 1..Len(AllVisits(payload)) :
                ~AllVisits(payload)[i].has_mvj
          \/ \E t \in targets :
                \A i \in 1..Len(AllVisits(payload)) :
                   t \notin AllVisits(payload)[i].mvj

====
